---- MODULE Spec2Model ----
(***************************************************************************)
(* A model of src/action/executor.py: the file phase                      *)
(* (process_direct_files), the variant runner                             *)
(* (execute_python_code_variant, with the AwaitTransformer rewrite), the  *)
(* trial sequencer (execute_code_variants) and the entry point            *)
(* (run_user_code).                                                       *)
(*                                                                         *)
(* Python text is a sequence of tokens (strings), so that formatting and  *)
(* joining are computed, not assumed.  Python values are records          *)
(* [t |-> tag, v |-> token].  Errors are instances of Exception           *)
(* subclasses: [kind |-> class name, msg |-> str(e)].                     *)
(***************************************************************************)
EXTENDS Integers, Sequences, FiniteSets, TLC

(***************************************************************************)
(* Bounds of the model.                                                    *)
(***************************************************************************)
MaxVariants == 2
MaxFiles == 2

(***************************************************************************)
(* Text.                                                                   *)
(***************************************************************************)
\* ord(c) for the characters variant names are built from
CharCode(c) ==
  CASE c = "1" -> 49
    [] c = "A" -> 65
    [] c = "B" -> 66
    [] c = "a" -> 97

Min(a, b) == IF a < b THEN a ELSE b

\* a faulty comparison: shorter names first, then by code point
PyStrLessByLength(s, t) ==
  \/ Len(s) < Len(t)
  \/ /\ Len(s) = Len(t)
     /\ \E i \in 1..Len(s) :
          /\ \A j \in 1..(i - 1) : s[j] = t[j]
          /\ CharCode(s[i]) < CharCode(t[i])

\* Python's str.__lt__: lexicographic by code point, a proper prefix is smaller
PyStrLess(s, t) ==
  \/ \E i \in 1..Min(Len(s), Len(t)) :
       /\ \A j \in 1..(i - 1) : s[j] = t[j]
       /\ CharCode(s[i]) < CharCode(t[i])
  \/ /\ Len(s) < Len(t)
     /\ \A j \in 1..Len(s) : s[j] = t[j]

\* sorted(names): repeatedly take the least remaining name
RECURSIVE SortNames(_)
SortNames(S) ==
  IF S = {} THEN <<>>
  ELSE LET m == CHOOSE a \in S : \A b \in S \ {a} : PyStrLess(a, b)
       IN  <<m>> \o SortNames(S \ {m})

\* sep.join(parts), parts a sequence of texts
RECURSIVE Join(_, _)
Join(sep, parts) ==
  IF parts = <<>> THEN <<>>
  ELSE IF Len(parts) = 1 THEN parts[1]
  ELSE parts[1] \o <<sep>> \o Join(sep, Tail(parts))

\* f"{type(e).__name__}: {str(e)}"
ErrorText(e) == <<e.kind, ": ", e.msg>>

\* a faulty message: the variant name is left out
VariantErrorMsgNoName(variant_name, error) == error

\* f"{variant_name}: {result['error']}"
VariantErrorMsg(variant_name, error) == variant_name \o <<": ">> \o error

\* a faulty aggregate: only the last error is reported
AggregateErrorLastOnly(all_errors) ==
  <<"All code variants failed. Errors: ">>
    \o (IF all_errors = <<>> THEN <<>> ELSE all_errors[Len(all_errors)])

\* f"All code variants failed. Errors: {'; '.join(all_errors)}"
AggregateError(all_errors) ==
  <<"All code variants failed. Errors: ">> \o Join("; ", all_errors)

(***************************************************************************)
(* Python values.                                                          *)
(***************************************************************************)
None == [t |-> "None", v |-> ""]
Obj(v) == [t |-> "obj", v |-> v]
\* the async function _tool_fn make_tool_proxy returns for tool_name
make_tool_proxy(tool_name) == [t |-> "proxy", v |-> tool_name]
\* the coroutine object a call of _tool_fn returns before it is awaited
Coroutine(tool_name) == [t |-> "coroutine", v |-> tool_name]
\* the names of SAFE_BUILTINS['__builtins__'] a variant of the model uses
SAFE_BUILTINS == {"ValueError", "len", "open"}
Builtin(name) == [t |-> "builtin", v |-> name]
NoError == [kind |-> "", msg |-> ""]
Err(kind, msg) == [kind |-> kind, msg |-> msg]
EmptyDict == [k \in {} |-> None]

\* dict(base, **over): the keys of `over` win
Merge(base, over) ==
  [k \in DOMAIN base \cup DOMAIN over |->
     IF k \in DOMAIN over THEN over[k] ELSE base[k]]

(***************************************************************************)
(* Variant source text.  A source is either not valid Python               *)
(* (valid = FALSE) or a sequence of statements.  An expression is a        *)
(* constant, a name, a call name(constant), a nested call                 *)
(* name(name(constant)), a subscription name[key], or, after the rewrite,  *)
(* an awaited call.                                                        *)
(***************************************************************************)
Const(v) == [e |-> "const", id |-> v, arg |-> ""]
Name(id) == [e |-> "name", id |-> id, arg |-> ""]
Call(id, arg) == [e |-> "call", id |-> id, arg |-> arg]
\* id(id(arg)): the argument of the call is itself a call
Nested(id, arg) == [e |-> "nest", id |-> id, arg |-> arg]
\* id[key]
Subscript(id, key) == [e |-> "getitem", id |-> id, arg |-> key]
\* ast.Await(value=node); in a nested call generic_visit has wrapped the
\* argument first
Await(call) ==
  [e |-> IF call.e = "nest" THEN "await_nest" ELSE "await", id |-> call.id, arg |-> call.arg]
Awaited(x) == x.e \in {"await", "await_nest"}
Assign(target, value) == [op |-> "assign", target |-> target, value |-> value]
Return(value) == [op |-> "return", target |-> "", value |-> value]
Raise(value) == [op |-> "raise", target |-> "", value |-> value]
\* def target(): return value
FunctionDef(target, value) == [op |-> "def", target |-> target, value |-> value]
\* target["k"] = value
SetItem(target, value) == [op |-> "setitem", target |-> target, value |-> value]

\* x = 1
SrcAssign == [valid |-> TRUE, body |-> <<Assign("x", Const("1"))>>]
\* result = search("q") ; return result
SrcCall ==
  [valid |-> TRUE,
   body |-> <<Assign("result", Call("search", "q")), Return(Name("result"))>>]
\* raise ValueError("bad")
SrcRaise == [valid |-> TRUE, body |-> <<Raise(Call("ValueError", "bad"))>>]
\* x = (
SrcSyntaxError == [valid |-> FALSE, body |-> <<>>]

Sources == {SrcAssign, SrcCall, SrcRaise, SrcSyntaxError}

\* the empty string
SrcEmpty == [valid |-> TRUE, body |-> <<>>]
\* def f(): return search("q")
SrcNestedDef == [valid |-> TRUE, body |-> <<FunctionDef("f", Call("search", "q"))>>]
\* a = search("q") ; return search(search("p"))
SrcCalls ==
  [valid |-> TRUE,
   body |-> <<Assign("a", Call("search", "q")), Return(Nested("search", "p"))>>]
\* f = open(output_dir + "/out.txt", "w") ; raise ValueError("bad")
SrcWrite ==
  [valid |-> TRUE,
   body |-> <<Assign("f", Call("open", "out.txt")), Raise(Call("ValueError", "bad"))>>]
\* inputs["k"] = "1" ; raise ValueError("bad")
SrcMutate ==
  [valid |-> TRUE,
   body |-> <<SetItem("inputs", Const("1")), Raise(Call("ValueError", "bad"))>>]
\* return inputs["k"]
SrcObserve == [valid |-> TRUE, body |-> <<Return(Subscript("inputs", "k"))>>]

\* the sources of the runs that start at execute_code_variants
RunnerSources ==
  Sources \cup {SrcEmpty, SrcNestedDef, SrcCalls, SrcWrite, SrcMutate, SrcObserve}
VariantNames == {<<"A">>, <<"A", "B">>, <<"B">>}
\* the code_variants mappings: at most MaxVariants names, each with a source
CodeVariantMaps ==
  UNION {[S -> Sources] : S \in {T \in SUBSET VariantNames : Cardinality(T) <= MaxVariants}}
RunnerVariantMaps ==
  UNION {[S -> RunnerSources] :
           S \in {T \in SUBSET VariantNames : Cardinality(T) <= MaxVariants}}

\* filenames, as the sequence of their path components
FileNames == {<<"a.txt">>, <<"..", "a.txt">>, <<"..">>}
\* the files mappings, in insertion order: distinct keys, each with its content
FilesMaps ==
  {f \in UNION {[1..n -> FileNames] : n \in 0..MaxFiles} :
     \A i, j \in DOMAIN f : i # j => f[i] # f[j]}
Content(filename) == IF Len(filename) = 1 THEN "c1" ELSE "c2"
\* len(content.encode('utf-8'))
EncodedSize(content) == IF content = "c1" THEN 1 ELSE 2

\* the tool collaborator: None, or the tools it lists and whether listing raises
NoMcp == [present |-> FALSE, tools |-> {}, listing_raises |-> FALSE]
Collaborators ==
  {NoMcp,
   [present |-> TRUE, tools |-> {"search"}, listing_raises |-> FALSE],
   [present |-> TRUE, tools |-> {"search"}, listing_raises |-> TRUE]}
\* the collaborators of the runs that start at execute_code_variants: one of
\* them lists a tool named like an ambient key of the context
RunnerCollaborators ==
  Collaborators
    \cup {[present |-> TRUE, tools |-> {"search", "inputs"}, listing_raises |-> FALSE]}
\* what an operation of the collaborator may return
ToolValues == {"r1", "r2"}
ToolError == Err("RuntimeError", "tool failed")

\* globals_schema: None, or a mapping of prior bindings
NoSchema == [present |-> FALSE, map |-> EmptyDict]
Schemas ==
  {NoSchema, [present |-> TRUE, map |-> [k \in {"search"} |-> Obj("7")]]}

session_id == "s1"
\* str(Path(f"media/generated/{session_id}") / name)
SessionPath(name) == <<"media/generated/", session_id, "/", name>>
\* Path(f"media/generated/{session_id}"), as its components
output_dir == <<"media", "generated", session_id>>

\* the place a path names: a ".." component leaves the directory before it,
\* an empty component names the directory itself
RECURSIVE Resolve(_)
Resolve(path) ==
  IF path = <<>> THEN <<>>
  ELSE LET before == Resolve(SubSeq(path, 1, Len(path) - 1))
           last == path[Len(path)]
       IN  IF last = "" THEN before
           ELSE IF last = ".."
                THEN IF before = <<>> THEN <<>> ELSE SubSeq(before, 1, Len(before) - 1)
           ELSE Append(before, last)

\* a faulty listing: every file below the directory, at any depth
DirectChildrenAtAnyDepth(files, dir) ==
  {p[Len(p)] : p \in {q \in DOMAIN files :
                        Len(q) > Len(dir) /\ SubSeq(q, 1, Len(dir)) = dir}}

\* the names f.name of the f in dir.iterdir() with f.is_file()
DirectChildren(files, dir) ==
  {p[Len(p)] : p \in {q \in DOMAIN files :
                        Len(q) = Len(dir) + 1 /\ SubSeq(q, 1, Len(dir)) = dir}}
VARIABLES
  entry,            \* the function the caller invoked
  output_data,      \* [has_files, files, has_code, code_variants]
  multi_mcp,        \* the tool collaborator
  globals_schema,   \* prior bindings
  pc,               \* the position of the single thread of control
  disk,             \* the regular files: the place of each, and what it holds
  results,          \* run_user_code: results
  file_results,     \* process_direct_files: results
  fidx,             \* process_direct_files: position in files_dict.items()
  sorted_variants,  \* execute_code_variants: sorted(code_variants.items()), the names
  vidx,             \* execute_code_variants: position in sorted_variants
  all_errors,       \* execute_code_variants: all_errors
  code_results,     \* what execute_code_variants returned
  tool_funcs,       \* execute_python_code_variant: tool_funcs
  safe_globals,     \* execute_python_code_variant: safe_globals
  local_vars,       \* execute_python_code_variant: local_vars
  unit,             \* the body of __async_exec after the rewrite
  frame,            \* the local variables of the running __async_exec
  ip,               \* the statement of __async_exec about to run
  outcome,          \* what the last execute_python_code_variant returned
  attempts,         \* history: the variant attempts, [name, status, error]
  calls,            \* history: the operations the collaborator was asked to run
  raised,           \* the error that reached the caller of `entry`, if any
  heap,             \* the dict objects a variant can reach: the caller's `inputs`
                    \* (absent when it is None) and the {} line 116 makes instead
  stack             \* values the running statement has computed and not yet used

inputVars == <<entry, output_data, multi_mcp, globals_schema>>
fileVars == <<file_results, fidx>>
seqVars == <<sorted_variants, vidx, all_errors, code_results>>
runVars == <<tool_funcs, safe_globals, local_vars, unit, frame, ip, outcome>>
histVars == <<attempts, calls>>
objVars == <<heap, stack>>
vars == <<inputVars, pc, disk, results, fileVars, seqVars, runVars, histVars, raised,
          objVars>>

(***************************************************************************)
(* Records of the program.                                                 *)
(***************************************************************************)
NoText == [none |-> TRUE, text |-> <<>>]
Text(t) == [none |-> FALSE, text |-> t]
ResultValue(v) == [is_dict |-> FALSE, value |-> v, dict |-> EmptyDict]
ResultDict(d) == [is_dict |-> TRUE, value |-> None, dict |-> d]
NoOutcome == [status |-> "none"]

\* the classes `except Exception` catches, among those the model raises
ExceptionClasses ==
  {"ValueError", "TypeError", "NameError", "UnboundLocalError", "SyntaxError",
   "RuntimeError", "OSError", "IsADirectoryError", "KeyError"}

\* a faulty handler: only ValueError is caught
CatchesOnlyValueError(e) == e.kind = "ValueError"

\* `except Exception as e` (lines 183 and 316): is e caught?
Catches(e) == e.kind \in ExceptionClasses

\* run_user_code, lines 252-261
InitialResults ==
  [status |-> "success",
   session_id |-> session_id,
   operations |-> <<>>,
   created_files |-> <<>>,
   file_results |-> EmptyDict,
   code_results |-> EmptyDict,
   total_time |-> "0.0",
   error |-> NoText]

\* a faulty phase 1: a file phase that reports failures leaves the status alone
FileStatusIgnored(status, file_status) == status

\* run_user_code, lines 275-276
FileStatus(status, file_status) ==
  IF file_status # "success" THEN "partial_failure" ELSE status

\* a faulty phase 2: any code phase marks the run partial_failure
CodeStatusAlwaysPartial(status, code_status) == "partial_failure"

\* run_user_code, lines 292-294
CodeStatus(status, code_status) ==
  IF code_status # "success" /\ status = "success" THEN "partial_failure" ELSE status

\* a faulty phase 3: an empty operations list is not noticed
ValidateStatusKeeps(status, operations) == status

\* run_user_code, lines 298-299
ValidateStatus(status, operations) ==
  IF operations = <<>> THEN "no_operation" ELSE status

\* a faulty handler: the status is set, the error is not
ExceptHandlerNoError(res, e) ==
  [res EXCEPT !.status = "failed", !.total_time = "elapsed"]

\* run_user_code, lines 316-321
ExceptHandler(res, e) ==
  [res EXCEPT !.status = "failed", !.error = Text(<<e.msg>>), !.total_time = "elapsed"]

\* execute_python_code_variant, lines 183-190
FailedOutcome(e) ==
  [status |-> "failed",
   result |-> ResultDict(EmptyDict),
   created_files |-> <<>>,
   execution_time |-> "elapsed",
   error |-> Text(ErrorText(e))]

DunderNames == {"__async_exec", "__builtins__", "__t"}
\* k.startswith('__')
StartsWithDunder(k) == k \in DunderNames

\* execute_python_code_variant, lines 171-173
ExtractResult(value, locals) ==
  IF value = None
  THEN ResultDict([k \in {n \in DOMAIN locals : ~StartsWithDunder(n)} |-> locals[k]])
  ELSE ResultValue(value)

\* execute_python_code_variant, lines 175-181
SuccessOutcome(value, locals, listing) ==
  [status |-> "success",
   result |-> ExtractResult(value, locals),
   created_files |-> listing,
   execution_time |-> "elapsed",
   error |-> NoText]

\* the orders in which output_dir.iterdir() may list the regular files
Listings(files) ==
  {l \in [1..Cardinality(files) -> {SessionPath(n) : n \in files}] :
     \A i, j \in DOMAIN l : i # j => l[i] # l[j]}

(***************************************************************************)
(* The rewrite (lines 129-156) and the evaluation of the rewritten unit.   *)
(***************************************************************************)
\* a faulty transformer: tool calls are left as they are
visit_CallNoAwait(node, tool_names) == node

\* AwaitTransformer.visit_Call
visit_Call(node, tool_names) ==
  IF node.e \in {"call", "nest"} /\ node.id \in tool_names THEN Await(node) ELSE node

\* AwaitTransformer().visit(async_func): every call of every statement
Rewrite(body, tool_names) ==
  [i \in DOMAIN body |-> [body[i] EXCEPT !.value = visit_Call(@, tool_names)]]

\* what ast.parse / compile raise for a source, NoError when the unit compiles
CompileError(src, tool_names) ==
  IF ~src.valid THEN Err("SyntaxError", "invalid syntax")
  ELSE IF src.body = <<>> THEN Err("ValueError", "empty body on AsyncFunctionDef")
  ELSE IF \E i \in DOMAIN src.body :
            /\ src.body[i].op = "def"
            /\ Awaited(visit_Call(src.body[i].value, tool_names))
       THEN Err("SyntaxError", "'await' outside async function")
  ELSE NoError

\* the names the compiler makes local to __async_exec
LocalNames(body) ==
  {body[i].target : i \in {j \in DOMAIN body : body[j].op \in {"assign", "def"}}}

EvalVal(v) == [tag |-> "val", val |-> v, err |-> NoError]
EvalErr(e) == [tag |-> "err", val |-> None, err |-> e]
EvalSuspend(tool_name) == [tag |-> "suspend", val |-> Obj(tool_name), err |-> NoError]
\* the expression is about to call open(path, "w")
EvalOpen == [tag |-> "open", val |-> None, err |-> NoError]

\* LOAD of a name inside __async_exec: locals, then safe_globals, then builtins
Lookup(id, body, locals, globals) ==
  IF id \in LocalNames(body)
  THEN IF id \in DOMAIN locals THEN EvalVal(locals[id])
       ELSE EvalErr(Err("UnboundLocalError", "local variable referenced before assignment"))
  ELSE IF id \in DOMAIN globals THEN EvalVal(globals[id])
  ELSE IF id \in SAFE_BUILTINS THEN EvalVal(Builtin(id))
  ELSE EvalErr(Err("NameError", "name is not defined"))

\* the evaluation of an expression, up to the point where it suspends
Eval(x, body, locals, globals) ==
  IF x.e = "const" THEN EvalVal(Obj(x.id))
  ELSE IF x.e = "name" THEN Lookup(x.id, body, locals, globals)
  ELSE IF x.e = "getitem"
  THEN LET obj == Lookup(x.id, body, locals, globals) IN
    IF obj.tag = "err" THEN obj
    ELSE IF obj.val.t # "dict"
         THEN EvalErr(Err("TypeError", "object is not subscriptable"))
    ELSE IF obj.val.v \in DOMAIN heap /\ x.arg \in DOMAIN heap[obj.val.v]
         THEN EvalVal(Obj(heap[obj.val.v][x.arg]))
    ELSE EvalErr(Err("KeyError", x.arg))
  ELSE LET callee == Lookup(x.id, body, locals, globals) IN
    IF callee.tag = "err" THEN callee
    ELSE IF callee.val.t = "proxy"
         THEN IF Awaited(x) THEN EvalSuspend(callee.val.v)
              ELSE EvalVal(Coroutine(callee.val.v))
    ELSE IF callee.val = Builtin("ValueError")
         THEN IF Awaited(x)
              THEN EvalErr(Err("TypeError", "object can't be used in 'await' expression"))
              ELSE EvalVal([t |-> "exception", v |-> x.arg])
    ELSE IF callee.val = Builtin("open") /\ x.e = "call"
         THEN IF stack = <<>> THEN EvalOpen ELSE EvalVal(stack[1])
    ELSE EvalErr(Err("TypeError", "object is not callable"))

(***************************************************************************)
(* The execution context (lines 103-122).                                  *)
(***************************************************************************)
\* lines 104-107, once get_all_tools() has returned
BuildToolFuncs(mcp) ==
  IF mcp.present THEN [name \in mcp.tools |-> make_tool_proxy(name)] ELSE EmptyDict

\* line 116, `inputs or {}`: the caller's dict when it is one and not empty,
\* else a dict of this attempt's own
InputsOrEmpty(objects) ==
  IF "inputs" \in DOMAIN objects /\ DOMAIN objects["inputs"] # {} THEN "inputs" ELSE "fresh"

\* a faulty context: the proxies are spread last and win over every other key
BuildGlobalsToolsLast(tf, mcp, schema, objects) ==
  LET ambient ==
        [multi_mcp |-> IF mcp.present THEN [t |-> "mcp", v |-> ""] ELSE None,
         session_id |-> [t |-> "str", v |-> session_id],
         output_dir |-> [t |-> "str", v |-> "media/generated/s1"],
         inputs |-> [t |-> "dict", v |-> InputsOrEmpty(objects)],
         globals_schema |-> [t |-> "dict", v |-> "globals_schema"]]
      base == Merge([k \in {"__builtins__"} |-> [t |-> "dict", v |-> "builtins"]], ambient)
  IN  Merge(IF schema.present THEN Merge(base, schema.map) ELSE base, tf)

\* lines 110-122: later keys win, globals_schema is spread last
BuildGlobals(tf, mcp, schema, objects) ==
  LET ambient ==
        [multi_mcp |-> IF mcp.present THEN [t |-> "mcp", v |-> ""] ELSE None,
         session_id |-> [t |-> "str", v |-> session_id],
         output_dir |-> [t |-> "str", v |-> "media/generated/s1"],
         inputs |-> [t |-> "dict", v |-> InputsOrEmpty(objects)],
         globals_schema |-> [t |-> "dict", v |-> "globals_schema"]]
      base == Merge(Merge([k \in {"__builtins__"} |-> [t |-> "dict", v |-> "builtins"]], tf),
                    ambient)
  IN  IF schema.present /\ DOMAIN schema.map # {} THEN Merge(base, schema.map) ELSE base

(***************************************************************************)
(* The initial state: the caller's arguments, and run_user_code's results  *)
(* as lines 252-261 build it.                                              *)
(***************************************************************************)
OutputDatas ==
  {[has_files |-> hf, files |-> f, has_code |-> hc, code_variants |-> cv] :
     hf \in BOOLEAN, f \in FilesMaps, hc \in BOOLEAN, cv \in CodeVariantMaps}

Init ==
  /\ entry \in {"run_user_code", "execute_code_variants"}
  /\ output_data \in
       {d \in OutputDatas :
          /\ ~d.has_files => d.files = <<>>
          /\ ~d.has_code => DOMAIN d.code_variants = {}
          /\ entry = "execute_code_variants" => ~d.has_files /\ d.has_code}
  /\ multi_mcp \in Collaborators
  /\ globals_schema \in Schemas
  /\ pc = IF entry = "run_user_code" THEN "phase1" ELSE "call"
  /\ disk = EmptyDict
  /\ results = InitialResults
  /\ file_results = NoOutcome
  /\ fidx = 0
  /\ sorted_variants = <<>>
  /\ vidx = 0
  /\ all_errors = <<>>
  /\ code_results = NoOutcome
  /\ tool_funcs = EmptyDict
  /\ safe_globals = EmptyDict
  /\ local_vars = EmptyDict
  /\ unit = <<>>
  /\ frame = EmptyDict
  /\ ip = 0
  /\ outcome = NoOutcome
  /\ attempts = <<>>
  /\ calls = <<>>
  /\ raised = NoError
  /\ heap = [o \in {"fresh"} |-> EmptyDict]
  /\ stack = <<>>

(***************************************************************************)
(* Errors that leave a function.                                           *)
(***************************************************************************)
\* e propagates up to run_user_code's handler (line 316) or to the caller
Escapes(e) ==
  /\ pc' = "done"
  /\ IF entry = "run_user_code" /\ Catches(e)
     THEN results' = ExceptHandler(results, e) /\ raised' = raised
     ELSE results' = results /\ raised' = e

SetLast(log, status, e) ==
  [log EXCEPT ![Len(log)].status = status, ![Len(log)].error = ErrorText(e)]

\* e is raised inside the try block of execute_python_code_variant (line 183)
Fails(e) ==
  IF Catches(e)
  THEN /\ outcome' = FailedOutcome(e)
       /\ attempts' = SetLast(attempts, "failed", e)
       /\ pc' = "returned"
       /\ UNCHANGED <<results, raised>>
  ELSE /\ outcome' = outcome
       /\ attempts' = SetLast(attempts, "raised", e)
       /\ Escapes(e)

\* __async_exec returned `value`: lines 166-181
Succeeds(value) ==
  /\ \E listing \in Listings(DirectChildren(disk, output_dir)) :
       outcome' = SuccessOutcome(value, local_vars, listing)
  /\ attempts' = [attempts EXCEPT ![Len(attempts)].status = "success"]
  /\ pc' = "returned"
  /\ UNCHANGED <<results, raised>>

(***************************************************************************)
(* process_direct_files, and phase 1 of run_user_code.                     *)
(***************************************************************************)
FilesPresent == output_data.has_files /\ output_data.files # <<>>
CodePresent == output_data.has_code /\ DOMAIN output_data.code_variants # {}

\* Path(filename).name
PathName(filename) == filename[Len(filename)]
\* the filename as the text the caller wrote
FileNameText(filename) == Join("/", [i \in DOMAIN filename |-> <<filename[i]>>])
\* open(output_dir / name, 'w') cannot succeed: the path is a directory
IsDirectoryName(name) == name \in {"..", ""}

\* a faulty path: the filename is joined as the caller wrote it
FilePathUnsanitized(filename) == output_dir \o filename

\* lines 59-60: filepath = output_dir / Path(filename).name
FilePath(filename) == output_dir \o <<PathName(filename)>>

\* open(path, 'w') and f.write(content): the file at that place holds content
WriteText(files, path, content) == Merge(files, [p \in {Resolve(path)} |-> content])

\* line 267 is false
SkipFiles ==
  /\ pc = "phase1"
  /\ ~FilesPresent
  /\ pc' = "phase2"
  /\ UNCHANGED <<inputVars, objVars, disk, results, fileVars, seqVars, runVars, histVars, raised>>

\* lines 267-270 and 40-54: the session directory is there
BeginFiles ==
  /\ pc = "phase1"
  /\ FilesPresent
  /\ file_results' =
       [created_files |-> <<>>, file_count |-> 0, total_size |-> 0,
        status |-> "success", errors |-> <<>>]
  /\ fidx' = 1
  /\ pc' = "files_loop"
  /\ UNCHANGED <<inputVars, objVars, disk, results, seqVars, runVars, histVars, raised>>

\* line 44 raises: the error leaves process_direct_files
BeginFilesMkdirFails ==
  /\ pc = "phase1"
  /\ FilesPresent
  /\ Escapes(Err("OSError", "mkdir failed"))
  /\ UNCHANGED <<inputVars, objVars, disk, fileVars, seqVars, runVars, histVars>>

\* lines 56-71: one file is written
WriteFile ==
  /\ pc = "files_loop"
  /\ fidx <= Len(output_data.files)
  /\ LET filename == output_data.files[fidx]
         safe_filename == PathName(filename)
     IN  /\ ~IsDirectoryName(safe_filename)
         /\ disk' = WriteText(disk, FilePath(filename), Content(filename))
         /\ file_results' =
              [file_results EXCEPT
                 !.created_files = Append(@, SessionPath(safe_filename)),
                 !.total_size = @ + EncodedSize(Content(filename))]
  /\ fidx' = fidx + 1
  /\ UNCHANGED <<inputVars, objVars, pc, results, seqVars, runVars, histVars, raised>>

\* lines 73-77: the write raised, the loop goes on
WriteFileFails ==
  /\ pc = "files_loop"
  /\ fidx <= Len(output_data.files)
  /\ LET filename == output_data.files[fidx]
         e == IF IsDirectoryName(PathName(filename))
              THEN Err("IsADirectoryError", "Is a directory")
              ELSE Err("OSError", "write failed")
     IN  file_results' =
           [file_results EXCEPT
              !.errors = Append(@, <<"Failed to create ">> \o FileNameText(filename)
                                     \o <<": ", e.msg>>),
              !.status = "partial_failure"]
  /\ fidx' = fidx + 1
  /\ UNCHANGED <<inputVars, objVars, pc, disk, results, seqVars, runVars, histVars, raised>>

\* results["created_files"].extend(...), lines 273 and 289-290
Extend(created_files, phase_files) == created_files \o phase_files

\* lines 79-85, then lines 271-277 of run_user_code
FilesReturn ==
  /\ pc = "files_loop"
  /\ fidx > Len(output_data.files)
  /\ LET ret == Merge([file_results EXCEPT !.file_count = Len(file_results.created_files)],
                      [execution_time |-> "elapsed"])
     IN  /\ file_results' = ret
         /\ results' =
              [results EXCEPT
                 !.file_results = ret,
                 !.operations = Append(@, "direct_files"),
                 !.created_files = Extend(@, ret.created_files),
                 !.status = FileStatus(@, ret.status),
                 !.error = IF ret.status # "success"
                           THEN Text(<<"File creation issues: ", "[">>
                                     \o Join(", ", ret.errors) \o <<"]">>)
                           ELSE @]
  /\ pc' = "phase2"
  /\ UNCHANGED <<inputVars, objVars, disk, fidx, seqVars, runVars, histVars, raised>>

(***************************************************************************)
(* execute_code_variants.                                                  *)
(***************************************************************************)
\* line 280 is false
SkipCode ==
  /\ pc = "phase2"
  /\ ~CodePresent
  /\ pc' = "phase3"
  /\ UNCHANGED <<inputVars, objVars, disk, results, fileVars, seqVars, runVars, histVars, raised>>

\* lines 196-203: called from line 283, or by the caller itself
BeginVariants ==
  /\ \/ pc = "phase2" /\ CodePresent
     \/ pc = "call"
  /\ sorted_variants' = SortNames(DOMAIN output_data.code_variants)
  /\ all_errors' = <<>>
  /\ vidx' = 1
  /\ pc' = "seq_loop"
  /\ UNCHANGED <<inputVars, objVars, disk, results, fileVars, code_results, runVars, histVars,
                 raised>>

\* where execute_code_variants returns to
AfterVariants == IF entry = "run_user_code" THEN "code_returned" ELSE "done"

\* lines 205-208 and 97-122: the next variant's attempt begins
TryVariant ==
  /\ pc = "seq_loop"
  /\ vidx <= Len(sorted_variants)
  /\ ~(multi_mcp.present /\ multi_mcp.listing_raises)
  /\ tool_funcs' = BuildToolFuncs(multi_mcp)
  /\ safe_globals' = BuildGlobals(BuildToolFuncs(multi_mcp), multi_mcp, globals_schema, heap)
  /\ heap' = [heap EXCEPT !["fresh"] = EmptyDict]
  /\ attempts' = Append(attempts, [name |-> sorted_variants[vidx], status |-> "running",
                                    error |-> <<>>])
  /\ pc' = "compile"
  /\ UNCHANGED <<inputVars, stack, disk, results, fileVars, seqVars, local_vars, unit, frame,
                 ip, outcome, calls, raised>>

\* line 101 raises: outside the try block, the error leaves the attempt
TryVariantMkdirFails ==
  /\ pc = "seq_loop"
  /\ vidx <= Len(sorted_variants)
  /\ attempts' = Append(attempts, [name |-> sorted_variants[vidx], status |-> "raised",
                                    error |-> ErrorText(Err("OSError", "mkdir failed"))])
  /\ Escapes(Err("OSError", "mkdir failed"))
  /\ UNCHANGED <<inputVars, objVars, disk, fileVars, seqVars, runVars, calls>>

\* line 106 raises: outside the try block, the error leaves the attempt
TryVariantListingRaises ==
  /\ pc = "seq_loop"
  /\ vidx <= Len(sorted_variants)
  /\ multi_mcp.present /\ multi_mcp.listing_raises
  /\ attempts' = Append(attempts, [name |-> sorted_variants[vidx], status |-> "raised",
                                    error |-> ErrorText(Err("RuntimeError", "listing failed"))])
  /\ Escapes(Err("RuntimeError", "listing failed"))
  /\ UNCHANGED <<inputVars, objVars, disk, fileVars, seqVars, runVars, calls>>

\* lines 210-217
VariantSucceeded ==
  /\ pc = "returned"
  /\ outcome.status = "success"
  /\ code_results' =
       Merge(outcome,
             [successful_variant |-> sorted_variants[vidx],
              total_variants_tried |-> Len(all_errors) + 1,
              all_errors |-> all_errors])
  /\ pc' = AfterVariants
  /\ UNCHANGED <<inputVars, objVars, disk, results, fileVars, sorted_variants, vidx, all_errors,
                 runVars, histVars, raised>>

\* lines 218-222
VariantFailed ==
  /\ pc = "returned"
  /\ outcome.status # "success"
  /\ all_errors' = Append(all_errors,
                          VariantErrorMsg(sorted_variants[vidx], outcome.error.text))
  /\ vidx' = vidx + 1
  /\ pc' = "seq_loop"
  /\ UNCHANGED <<inputVars, objVars, disk, results, fileVars, sorted_variants, code_results,
                 runVars, histVars, raised>>

\* lines 224-234
AllFailed ==
  /\ pc = "seq_loop"
  /\ vidx > Len(sorted_variants)
  /\ code_results' =
       [status |-> "failed",
        result |-> ResultDict(EmptyDict),
        created_files |-> <<>>,
        execution_time |-> "elapsed",
        error |-> Text(AggregateError(all_errors)),
        failed_variants |-> Len(sorted_variants),
        all_errors |-> all_errors]
  /\ pc' = AfterVariants
  /\ UNCHANGED <<inputVars, objVars, disk, results, fileVars, sorted_variants, vidx, all_errors,
                 runVars, histVars, raised>>

(***************************************************************************)
(* execute_python_code_variant, inside the try block.                      *)
(***************************************************************************)
Source == output_data.code_variants[sorted_variants[vidx]]

\* lines 129-161: the unit is parsed, rewritten, compiled and defined
Compile ==
  /\ pc = "compile"
  /\ CompileError(Source, DOMAIN tool_funcs) = NoError
  /\ unit' = Rewrite(Source.body, DOMAIN tool_funcs)
  /\ local_vars' = [k \in {"__async_exec"} |-> [t |-> "function", v |-> "__async_exec"]]
  /\ frame' = EmptyDict
  /\ ip' = 1
  /\ stack' = <<>>
  /\ pc' = "run"
  /\ UNCHANGED <<inputVars, heap, disk, results, fileVars, seqVars, tool_funcs, safe_globals,
                 outcome, histVars, raised>>

\* lines 129-159 raise
CompileFails ==
  /\ pc = "compile"
  /\ CompileError(Source, DOMAIN tool_funcs) # NoError
  /\ Fails(CompileError(Source, DOMAIN tool_funcs))
  /\ UNCHANGED <<inputVars, objVars, disk, fileVars, seqVars, tool_funcs, safe_globals, local_vars,
                 unit, frame, ip, calls>>

Stmt == unit[ip]
Evaluated == Eval(Stmt.value, unit, frame, safe_globals)
Running == pc = "run" /\ ip <= Len(unit)
\* the object a statement target["k"] = value stores into
Subscripted == Lookup(Stmt.target, unit, frame, safe_globals)

\* a statement binds its target: name = value, or def name(): ...
StmtBinds ==
  /\ Running
  /\ \/ Stmt.op = "def"
     \/ Stmt.op = "assign" /\ Evaluated.tag = "val"
  /\ frame' = Merge(frame,
                    [k \in {Stmt.target} |->
                       IF Stmt.op = "def" THEN [t |-> "function", v |-> Stmt.target]
                       ELSE Evaluated.val])
  /\ ip' = ip + 1
  /\ stack' = <<>>
  /\ UNCHANGED <<inputVars, heap, pc, disk, results, fileVars, seqVars, tool_funcs, safe_globals,
                 local_vars, unit, outcome, histVars, raised>>

\* a faulty proxy: the operation is started and the variant goes on at once
StmtSuspendsNoWait ==
  /\ Running
  /\ Stmt.op # "def"
  /\ Evaluated.tag = "suspend"
  /\ calls' = Append(calls, [tool |-> Evaluated.val.v, arg |-> Stmt.value.arg,
                             state |-> "pending", value |-> ""])
  /\ ip' = ip + 1
  /\ UNCHANGED <<inputVars, objVars, pc, disk, results, fileVars, seqVars, tool_funcs,
                 safe_globals, local_vars, unit, frame, outcome, attempts, raised>>

\* an awaited call of a proxy: _tool_fn awaits mcp.function_wrapper (line 90)
StmtSuspends ==
  /\ Running
  /\ Stmt.op # "def"
  /\ Evaluated.tag = "suspend"
  /\ calls' = Append(calls, [tool |-> Evaluated.val.v,
                             arg |-> IF stack = <<>> THEN Stmt.value.arg ELSE stack[1].v,
                             state |-> "pending", value |-> ""])
  /\ pc' = "await"
  /\ UNCHANGED <<inputVars, objVars, disk, results, fileVars, seqVars, runVars, attempts, raised>>

\* the statement raises: its expression does, or it is a raise statement
StmtRaises ==
  /\ Running
  /\ Stmt.op # "def"
  /\ \/ Evaluated.tag = "err" /\ Fails(Evaluated.err)
     \/ /\ Evaluated.tag = "val"
        /\ Stmt.op = "raise"
        /\ Fails(IF Evaluated.val.t = "exception"
                 THEN Err(Stmt.value.id, Evaluated.val.v)
                 ELSE Err("TypeError", "exceptions must derive from BaseException"))
     \/ /\ Evaluated.tag = "val"
        /\ Stmt.op = "setitem"
        /\ Subscripted.tag = "err" \/ Subscripted.val.t # "dict"
        /\ Fails(IF Subscripted.tag = "err" THEN Subscripted.err
                 ELSE Err("TypeError", "object does not support item assignment"))
  /\ UNCHANGED <<inputVars, objVars, disk, fileVars, seqVars, tool_funcs, safe_globals, local_vars,
                 unit, frame, ip, calls>>

\* return value
StmtReturns ==
  /\ Running
  /\ Stmt.op = "return"
  /\ Evaluated.tag = "val"
  /\ Succeeds(Evaluated.val)
  /\ UNCHANGED <<inputVars, objVars, disk, fileVars, seqVars, tool_funcs, safe_globals, local_vars,
                 unit, frame, ip, calls>>

\* the body ends without a return: __async_exec returns None
FallsOffEnd ==
  /\ pc = "run"
  /\ ip > Len(unit)
  /\ Succeeds(None)
  /\ UNCHANGED <<inputVars, objVars, disk, fileVars, seqVars, tool_funcs, safe_globals, local_vars,
                 unit, frame, ip, calls>>

\* open(output_dir + "/" + name, "w"): the file is created, or emptied
StmtOpens ==
  /\ Running
  /\ Stmt.op # "def"
  /\ Evaluated.tag = "open"
  /\ disk' = WriteText(disk, Append(output_dir, Stmt.value.arg), "")
  /\ stack' = <<[t |-> "file", v |-> Stmt.value.arg]>>
  /\ UNCHANGED <<inputVars, heap, pc, results, fileVars, seqVars, runVars, histVars, raised>>

\* target["k"] = value, target a dict
StmtSetsItem ==
  /\ Running
  /\ Stmt.op = "setitem"
  /\ Evaluated.tag = "val"
  /\ Subscripted.tag = "val"
  /\ Subscripted.val.t = "dict"
  /\ heap' = IF Subscripted.val.v \in DOMAIN heap
             THEN [heap EXCEPT ![Subscripted.val.v] =
                                 Merge(@, [k \in {"k"} |-> Evaluated.val.v])]
             ELSE heap
  /\ ip' = ip + 1
  /\ UNCHANGED <<inputVars, stack, pc, disk, results, fileVars, seqVars, tool_funcs,
                 safe_globals, local_vars, unit, frame, outcome, histVars, raised>>

Completed(log, state, value) ==
  [log EXCEPT ![Len(log)].state = state, ![Len(log)].value = value]

\* the collaborator completes the operation: the await yields its value
ToolReturns ==
  /\ pc = "await"
  /\ \E v \in ToolValues :
       /\ calls' = Completed(calls, "returned", v)
       /\ IF Stmt.value.e = "await_nest" /\ stack = <<>>
          THEN /\ stack' = <<Obj(v)>>
               /\ pc' = "run"
               /\ UNCHANGED <<frame, ip, outcome, attempts, results, raised>>
          ELSE /\ stack' = <<>>
               /\ IF Stmt.op = "assign"
                  THEN /\ frame' = Merge(frame, [k \in {Stmt.target} |-> Obj(v)])
                       /\ ip' = ip + 1
                       /\ pc' = "run"
                       /\ UNCHANGED <<outcome, attempts, results, raised>>
                  ELSE /\ UNCHANGED <<frame, ip>>
                       /\ IF Stmt.op = "return" THEN Succeeds(Obj(v))
                          ELSE Fails(Err("TypeError",
                                         "exceptions must derive from BaseException"))
  /\ UNCHANGED <<inputVars, heap, disk, fileVars, seqVars, tool_funcs, safe_globals, local_vars,
                 unit>>

\* a faulty proxy: an operation that raises is invoked a second time
ToolRaisesRetries ==
  /\ pc = "await"
  /\ IF Len(calls) < 2 \/ calls[Len(calls) - 1].state # "raised"
     THEN /\ calls' = Append(Completed(calls, "raised", ""), calls[Len(calls)])
          /\ UNCHANGED <<pc, outcome, attempts, results, raised>>
     ELSE /\ calls' = Completed(calls, "raised", "")
          /\ Fails(ToolError)
  /\ UNCHANGED <<inputVars, objVars, disk, fileVars, seqVars, tool_funcs, safe_globals,
                 local_vars, unit, frame, ip>>

\* the collaborator's operation raises: the error reaches the variant unchanged
ToolRaises ==
  /\ pc = "await"
  /\ calls' = Completed(calls, "raised", "")
  /\ Fails(ToolError)
  /\ UNCHANGED <<inputVars, objVars, disk, fileVars, seqVars, tool_funcs, safe_globals, local_vars,
                 unit, frame, ip>>

(***************************************************************************)
(* run_user_code, after execute_code_variants returned.                    *)
(***************************************************************************)
\* lines 286-295
CodeReturn ==
  /\ pc = "code_returned"
  /\ results' =
       [results EXCEPT
          !.code_results = code_results,
          !.operations = Append(@, "python_code"),
          !.created_files = Extend(@, code_results.created_files),
          !.status = CodeStatus(@, code_results.status),
          !.error = IF code_results.status # "success"
                    THEN Text(<<"Code execution failed: ">> \o code_results.error.text)
                    ELSE @]
  /\ pc' = "phase3"
  /\ UNCHANGED <<inputVars, objVars, disk, fileVars, seqVars, runVars, histVars, raised>>

\* lines 297-314
Validate ==
  /\ pc = "phase3"
  /\ results' =
       [results EXCEPT
          !.status = ValidateStatus(@, results.operations),
          !.error = IF results.operations = <<>>
                    THEN Text(<<"No files or code_variants found in output">>) ELSE @,
          !.total_time = "elapsed"]
  /\ pc' = "done"
  /\ UNCHANGED <<inputVars, objVars, disk, fileVars, seqVars, runVars, histVars, raised>>

Next ==
  \/ SkipFiles \/ BeginFiles \/ BeginFilesMkdirFails
  \/ WriteFile \/ WriteFileFails \/ FilesReturn
  \/ SkipCode \/ BeginVariants
  \/ TryVariant \/ TryVariantMkdirFails \/ TryVariantListingRaises
  \/ Compile \/ CompileFails
  \/ StmtBinds \/ StmtSuspends \/ StmtRaises \/ StmtReturns \/ FallsOffEnd
  \/ ToolReturns \/ ToolRaises
  \/ VariantSucceeded \/ VariantFailed \/ AllFailed
  \/ CodeReturn \/ Validate

Spec == Init /\ [][Next]_vars

\* the thread of control is always scheduled: no step waits for ever
FairSpec == Spec /\ WF_vars(Next)

(***************************************************************************)
(* The runs that start at execute_code_variants, with the larger set of    *)
(* sources: the session directory may hold files of earlier invocations,   *)
(* other directories hold files too, and the caller may pass `inputs`.     *)
(***************************************************************************)
\* files left by an earlier invocation, in and around the session directory
LeftFiles ==
  [p \in {<<"media", "generated", "s1", "old.txt">>,
           <<"media", "generated", "s1", "sub", "deep.txt">>,
           <<"media", "generated", "s0", "other.txt">>} |-> "c1"]

InitRunner ==
  /\ entry = "execute_code_variants"
  /\ output_data \in
       {[has_files |-> FALSE, files |-> <<>>, has_code |-> TRUE, code_variants |-> cv] :
          cv \in RunnerVariantMaps}
  /\ multi_mcp \in RunnerCollaborators
  /\ globals_schema \in Schemas
  /\ pc = "call"
  /\ disk \in {EmptyDict, LeftFiles}
  /\ results = InitialResults
  /\ file_results = NoOutcome
  /\ fidx = 0
  /\ sorted_variants = <<>>
  /\ vidx = 0
  /\ all_errors = <<>>
  /\ code_results = NoOutcome
  /\ tool_funcs = EmptyDict
  /\ safe_globals = EmptyDict
  /\ local_vars = EmptyDict
  /\ unit = <<>>
  /\ frame = EmptyDict
  /\ ip = 0
  /\ outcome = NoOutcome
  /\ attempts = <<>>
  /\ calls = <<>>
  /\ raised = NoError
  /\ heap \in {[o \in {"fresh"} |-> EmptyDict],
                [o \in {"fresh", "inputs"} |->
                   IF o = "inputs" THEN [k \in {"k0"} |-> "v0"] ELSE EmptyDict]}
  /\ stack = <<>>

NextRunner ==
  \/ BeginVariants
  \/ TryVariant \/ TryVariantMkdirFails \/ TryVariantListingRaises
  \/ Compile \/ CompileFails
  \/ StmtBinds \/ StmtSuspends \/ StmtRaises \/ StmtReturns \/ FallsOffEnd
  \/ StmtOpens \/ StmtSetsItem
  \/ ToolReturns \/ ToolRaises
  \/ VariantSucceeded \/ VariantFailed \/ AllFailed

SpecRunner == InitRunner /\ [][NextRunner]_vars

(***************************************************************************)
(* Properties.                                                             *)
(***************************************************************************)
\* the order of variant names the specification asks for, stated on its own:
\* at the first position where two names differ the smaller code point comes
\* first, and a name comes before every name it is a proper prefix of
CommonPrefix(a, b) ==
  Cardinality({i \in 1..Min(Len(a), Len(b)) : \A j \in 1..i : a[j] = b[j]})
Precedes(a, b) ==
  LET p == CommonPrefix(a, b) IN
    IF p = Len(a) THEN p < Len(b)
    ELSE IF p = Len(b) THEN FALSE
    ELSE CharCode(a[p + 1]) < CharCode(b[p + 1])
\* the position of a name among the names of the mapping, in that order
Rank(name) ==
  1 + Cardinality({n \in DOMAIN output_data.code_variants : Precedes(n, name)})

\* C1: the variants are attempted one at a time in ascending order of name:
\* the i-th attempt is on the i-th name, it begins only once every earlier
\* attempt has finished with status failed, and so none follows a success.
C1_SequentialAscendingTrials ==
  \A i \in DOMAIN attempts :
    /\ attempts[i].name \in DOMAIN output_data.code_variants
    /\ Rank(attempts[i].name) = i
    /\ i < Len(attempts) => attempts[i].status = "failed"

\* the first variant succeeded, and the second was never attempted
C1_Witness ==
  /\ pc = "done"
  /\ Cardinality(DOMAIN output_data.code_variants) = 2
  /\ Len(attempts) = 1
  /\ attempts[1].status = "success"

\* the description of the i-th attempt's failure, as all_errors is to hold it
Description(i) == attempts[i].name \o <<": ">> \o attempts[i].error

\* C2: when execute_code_variants returns success and the winner is the k-th
\* name in ascending order, successful_variant is the winner's name,
\* total_variants_tried is k and all_errors holds the k-1 descriptions of the
\* earlier variants' failures, in trial order.
C2_SuccessAnnotations ==
  (code_results.status = "success") =>
    LET winner == attempts[Len(attempts)].name
        k == Rank(winner)
    IN  /\ attempts[Len(attempts)].status = "success"
        /\ code_results.successful_variant = winner
        /\ code_results.total_variants_tried = k
        /\ Len(code_results.all_errors) = k - 1
        /\ \A i \in 1..(k - 1) :
             /\ attempts[i].status = "failed"
             /\ code_results.all_errors[i] = Description(i)

\* the second variant won after the first failed
C2_Witness ==
  /\ code_results.status = "success"
  /\ code_results.total_variants_tried = 2
  /\ Len(code_results.all_errors) = 1

\* text `part` occurs in text `whole` as a contiguous run starting at position k
OccursAt(part, whole, k) ==
  /\ k + Len(part) - 1 <= Len(whole)
  /\ \A j \in 1..Len(part) : whole[k + j - 1] = part[j]

\* the texts of `parts` occur in `whole` one after the other, from position k on
RECURSIVE ContainsInOrder(_, _, _)
ContainsInOrder(parts, whole, k) ==
  \/ parts = <<>>
  \/ \E m \in k..Len(whole) :
       /\ OccursAt(parts[1], whole, m)
       /\ ContainsInOrder(Tail(parts), whole, m + Len(parts[1]))

\* C3: when every variant fails, execute_code_variants returns one aggregate
\* outcome: status failed, an empty result, no created files, one all_errors
\* entry per variant in trial order, an error message holding each of these
\* descriptions in that order, and failed_variants equal to the number of
\* variants (zero, with no errors, for the empty mapping).
C3_AggregateFailure ==
  (code_results.status = "failed") =>
    LET n == Cardinality(DOMAIN output_data.code_variants) IN
      /\ code_results.result = ResultDict(EmptyDict)
      /\ code_results.created_files = <<>>
      /\ code_results.failed_variants = n
      /\ Len(attempts) = n
      /\ Len(code_results.all_errors) = n
      /\ \A i \in 1..n :
           /\ attempts[i].status = "failed"
           /\ code_results.all_errors[i] = Description(i)
      /\ ~code_results.error.none
      /\ ContainsInOrder(code_results.all_errors, code_results.error.text, 1)

\* two variants were tried and both failed
C3_Witness ==
  /\ code_results.status = "failed"
  /\ Len(code_results.all_errors) = 2
  /\ code_results.failed_variants = 2

\* C4: every error raised inside a variant attempt, at any step of
\* execute_python_code_variant, becomes that attempt's failed outcome with
\* the error '<kind>: <message>', and the later variants are still attempted.
C4_AttemptErrorsBecomeOutcomes ==
  \A i \in DOMAIN attempts :
    /\ attempts[i].status # "raised"
    /\ (attempts[i].status = "failed" /\ i = Len(attempts) /\ pc = "returned") =>
         outcome.error.text = attempts[i].error

\* the operation names the collaborator has registered
RegisteredTools == IF multi_mcp.present THEN multi_mcp.tools ELSE {}
\* statement i of the source is target = name(arg) with name a registered tool
IsToolAssign(i) ==
  /\ Source.body[i].op = "assign"
  /\ Source.body[i].value.e = "call"
  /\ Source.body[i].value.id \in RegisteredTools

\* the value read back from a completed tool call is the collaborator's
ValueIsCollaboratorsResult ==
  /\ (pc = "await") =>
       /\ calls[Len(calls)].state = "pending"
       /\ Stmt.op = "assign" => Stmt.target \notin DOMAIN frame
  /\ (pc = "run") =>
       \A i \in DOMAIN Source.body :
         (i < ip /\ IsToolAssign(i) /\ \A j \in (i + 1)..(ip - 1) : ~IsToolAssign(j)) =>
           /\ calls # <<>>
           /\ calls[Len(calls)].tool = Source.body[i].value.id
           /\ calls[Len(calls)].arg = Source.body[i].value.arg
           /\ calls[Len(calls)].state = "returned"
           /\ Source.body[i].target \in DOMAIN frame
           /\ frame[Source.body[i].target] = Obj(calls[Len(calls)].value)
  /\ (pc = "returned" /\ outcome.status = "success" /\ Source = SrcCall) =>
       outcome.result = ResultValue(Obj(calls[Len(calls)].value))

\* the statement about to run is target = name(arg), name a registered tool
ToolCallAboutToRun == pc = "run" /\ ip \in DOMAIN Source.body /\ IsToolAssign(ip)
\* nothing the caller passed and nothing the variant binds hides the proxy
NotShadowed(id) ==
  /\ ~(globals_schema.present /\ id \in DOMAIN globals_schema.map)
  /\ id \notin {"multi_mcp", "session_id", "output_dir", "inputs", "globals_schema"}
  /\ id \notin LocalNames(Source.body)

\* C5, as claimed: a call whose callee is a bare name equal to a registered
\* tool name suspends until the collaborator completes the operation, and its
\* value is the value the collaborator returned for that operation and
\* argument, never the unresolved awaitable: result = search("q") binds
\* result to that value, and the later return result reads it.
C5_ProxyCallYieldsResult ==
  /\ ValueIsCollaboratorsResult
  /\ ToolCallAboutToRun => Evaluated.tag = "suspend"

\* C5, amended: the same, for a name that the execution context still binds
\* to its proxy: no key of globals_schema and no ambient key has that name,
\* and the variant does not bind it.
C5_BoundProxyCallYieldsResult ==
  /\ ValueIsCollaboratorsResult
  /\ (ToolCallAboutToRun /\ NotShadowed(Stmt.value.id)) => Evaluated.tag = "suspend"

\* result = search("q") has run: result holds what the collaborator returned
C5_Witness ==
  /\ pc = "run"
  /\ Source = SrcCall
  /\ ip = 2
  /\ calls[Len(calls)] = [tool |-> "search", arg |-> "q", state |-> "returned", value |-> "r2"]
  /\ frame["result"] = Obj("r2")

\* C6: when a variant attempt succeeds, the outcome's result is the explicit
\* return value if there is one, and otherwise the mapping from every
\* top-level name the variant's statements bound to its value, without the
\* names that start with '__'.
C6_ResultIsReturnOrBindings ==
  (pc = "returned" /\ outcome.status = "success") =>
    IF ip <= Len(unit)
    THEN Evaluated.tag = "val" => outcome.result = ResultValue(Evaluated.val)
    ELSE outcome.result =
           ResultDict([k \in {n \in DOMAIN frame : ~StartsWithDunder(n)} |-> frame[k]])

Ran(operation) == \E i \in DOMAIN results.operations : results.operations[i] = operation
FileFailed == Ran("direct_files") /\ results.file_results.status # "success"
FileSucceeded == Ran("direct_files") /\ results.file_results.status = "success"
CodeFailed == Ran("python_code") /\ results.code_results.status # "success"
CodeSucceeded == Ran("python_code") /\ results.code_results.status = "success"
Returned == pc = "done" /\ entry = "run_user_code"

\* C7, as claimed: partial_failure is reported only when a phase ran and failed
\* and, in addition, another phase succeeded or some file was created.
C7_PartialFailureNeedsPartialSuccess ==
  (Returned /\ results.status = "partial_failure") =>
    /\ FileFailed \/ CodeFailed
    /\ \/ FileFailed /\ CodeSucceeded
       \/ CodeFailed /\ FileSucceeded
       \/ results.created_files # <<>>

\* C7, amended: partial_failure is reported only when a phase ran and failed,
\* and it is reported whenever a phase ran and failed and no error escaped the
\* phases, also when that phase was the only one and no file was created.
C7_PartialFailureIffPhaseFailed ==
  Returned =>
    /\ results.status = "partial_failure" => FileFailed \/ CodeFailed
    /\ ((FileFailed \/ CodeFailed) /\ results.status # "failed") =>
         results.status = "partial_failure"

\* the only phase that ran failed, no file was created: partial_failure
C7_Witness ==
  /\ Returned
  /\ results.status = "partial_failure"
  /\ results.operations = <<"python_code">>
  /\ results.created_files = <<>>

\* the phases run_user_code called
FileRan == FilesPresent
CodeRan == vidx >= 1

\* C8: the overall status is one of success, partial_failure, failed and
\* no_operation, and it is success exactly when at least one phase ran and
\* every phase that ran reported status success.
C8_StatusClassification ==
  Returned =>
    /\ results.status \in {"success", "partial_failure", "failed", "no_operation"}
    /\ results.status = "success" <=>
         /\ FileRan \/ CodeRan
         /\ FileRan => FileSucceeded
         /\ CodeRan => CodeSucceeded

\* both phases ran and succeeded
C8_Witness ==
  /\ Returned
  /\ results.status = "success"
  /\ FileSucceeded
  /\ CodeSucceeded

\* C9: no_operation is reported exactly when 'files' is absent or empty and
\* 'code_variants' is absent or empty; then operations and created_files are
\* empty and neither the file phase nor a variant attempt was started.
C9_NoOperation ==
  Returned =>
    /\ results.status = "no_operation" <=> (~FilesPresent /\ ~CodePresent)
    /\ results.status = "no_operation" =>
         /\ results.operations = <<>>
         /\ results.created_files = <<>>
         /\ file_results = NoOutcome
         /\ fidx = 0
         /\ vidx = 0
         /\ attempts = <<>>
         /\ disk = EmptyDict

\* both keys are there, both mappings are empty
C9_Witness ==
  /\ Returned
  /\ results.status = "no_operation"
  /\ output_data.has_files
  /\ output_data.has_code

ResultKeys ==
  {"status", "session_id", "operations", "created_files", "file_results",
   "code_results", "total_time", "error"}

\* C10: whatever the input and the collaborator do, run_user_code returns a
\* result that carries status, session_id, operations, created_files,
\* file_results, code_results, total_time and error, and no error reaches
\* its caller.
C10_AlwaysReturnsResult ==
  (entry = "run_user_code") =>
    /\ [](raised = NoError)
    /\ <>(pc = "done" /\ DOMAIN results = ResultKeys)

\* an error left the variant attempt and run_user_code turned it into a result
C10_Witness ==
  /\ Returned
  /\ attempts # <<>>
  /\ attempts[Len(attempts)].status = "raised"
  /\ results.status = "failed"
  /\ ~results.error.none
  /\ raised = NoError

RECURSIVE SumOfSizes(_, _)
\* the sum of the byte lengths of the files at the places in S
SumOfSizes(files, S) ==
  IF S = {} THEN 0
  ELSE LET p == CHOOSE q \in S : TRUE
       IN  EncodedSize(files[p]) + SumOfSizes(files, S \ {p})

\* process_direct_files has just returned to run_user_code
FilePhaseReturned == pc = "phase2" /\ file_results # NoOutcome

\* C11: after process_direct_files, for every nonempty files mapping
\* (several keys may share a base name) whose writes all went through, every
\* key has its file in the session directory, holding that key's content, and
\* total_size is the sum of the byte lengths of the files that exist as a
\* result.
C11_EveryKeyBecomesItsFile ==
  (FilePhaseReturned /\ file_results.status = "success") =>
    /\ \A i \in DOMAIN output_data.files :
         LET filename == output_data.files[i]
             place == Append(output_dir, filename[Len(filename)])
         IN  /\ place \in DOMAIN disk
             /\ disk[place] = Content(filename)
    /\ file_results.total_size = SumOfSizes(disk, DOMAIN disk)

\* the places whose file a step creates or changes
Written == {p \in DOMAIN disk' : p \notin DOMAIN disk \/ disk'[p] # disk[p]}

\* C12: whatever the filename (directory components, parent-directory
\* escapes), the only place process_direct_files writes is the session
\* directory joined with the filename's base name: no file outside the
\* session directory is created or modified.
C12_WritesStayInSessionDirectory ==
  [][pc = "files_loop" =>
       \A p \in Written :
         LET filename == output_data.files[fidx]
         IN  /\ p = Append(output_dir, filename[Len(filename)])
             /\ SubSeq(p, 1, Len(p) - 1) = <<"media", "generated", "s1">>]_vars

\* a key with a parent-directory escape was written, inside the session directory
C12_Witness ==
  /\ pc = "files_loop"
  /\ \E i \in 1..(fidx - 1) :
       /\ i \in DOMAIN output_data.files
       /\ output_data.files[i] = <<"..", "a.txt">>
  /\ DOMAIN disk = {<<"media", "generated", "s1", "a.txt">>}
  /\ disk[<<"media", "generated", "s1", "a.txt">>] = "c2"

\* C13: the rewrite is total on syntactically valid source (the empty source
\* and a tool call inside a nested function included): the unit compiles and
\* starts to run.  Source that is not valid fails with a parse error before
\* any of its statements runs and before any tool operation is invoked.
C13_RewriteIsTotal ==
  [][pc = "compile" =>
       IF Source.valid
       THEN pc' = "run"
       ELSE /\ pc' = "returned"
            /\ outcome'.status = "failed"
            /\ outcome'.error.text[1] = "SyntaxError"
            /\ calls' = calls
            /\ UNCHANGED <<unit, frame, ip, heap, disk>>]_vars

\* execute_python_code_variant has built the context of the current attempt
ContextBuilt == pc \in {"compile", "run", "await"}
AmbientKeys == {"multi_mcp", "session_id", "output_dir", "inputs", "globals_schema"}

\* C14, as claimed: for every operation name the collaborator lists and every
\* globals_schema, one with a key equal to an operation name included, the
\* context binds the operation name to its proxy.
C14_EveryToolNameBoundToProxy ==
  ContextBuilt =>
    \A name \in RegisteredTools :
      /\ name \in DOMAIN safe_globals
      /\ safe_globals[name] = make_tool_proxy(name)

\* C14, amended: an operation name is bound to its proxy unless a key of
\* globals_schema or an ambient key of the context has that name; a
\* globals_schema key of that name is bound to the globals_schema value, an
\* ambient key to the ambient value.
C14_UnshadowedToolNameBoundToProxy ==
  ContextBuilt =>
    \A name \in RegisteredTools :
      /\ name \in DOMAIN safe_globals
      /\ IF globals_schema.present /\ name \in DOMAIN globals_schema.map
         THEN safe_globals[name] = globals_schema.map[name]
         ELSE IF name \in AmbientKeys
              THEN safe_globals[name].t # "proxy"
              ELSE safe_globals[name] = make_tool_proxy(name)

\* the collaborator lists search and inputs, nothing hides search, and a
\* bare-name call of search has reached the collaborator
C14_Witness ==
  /\ pc = "await"
  /\ RegisteredTools = {"search", "inputs"}
  /\ ~globals_schema.present
  /\ safe_globals["search"] = make_tool_proxy("search")
  /\ safe_globals["inputs"].t = "dict"
  /\ calls[Len(calls)].tool = "search"
  /\ calls[Len(calls)].state = "pending"

\* a step that asks the collaborator to run an operation
Issues == Len(calls') > Len(calls)

\* C15: within one attempt at most one tool invocation is outstanding; the
\* invocations are issued in the evaluation order of the source (top to
\* bottom, the argument of a call before the call), each one only after the
\* one before it has returned.
C15_OneToolCallAtATime ==
  [][/\ \A i \in 1..(Len(calls') - 1) : calls'[i].state # "pending"
     /\ (pc \in {"run", "await"} /\ pc' \in {"run", "await"}) => ip' >= ip
     /\ Issues =>
          /\ Len(calls') = Len(calls) + 1
          /\ calls = <<>> \/ calls[Len(calls)].state # "pending"
          /\ pc = "run" /\ ip \in DOMAIN Source.body
          /\ LET x == Source.body[ip].value
                 c == calls'[Len(calls')]
             IN  /\ c.tool = x.id
                 /\ c.state = "pending"
                 /\ x.e \in {"call", "nest"}
                 /\ x.e = "call" => c.arg = x.arg
                 /\ x.e = "nest" =>
                      \/ c.arg = x.arg
                      \/ /\ calls # <<>>
                         /\ calls[Len(calls)] =
                              [tool |-> x.id, arg |-> x.arg, state |-> "returned",
                               value |-> c.arg]]_vars

\* a = search("q") ; return search(search("p")): the three invocations were
\* issued in that order, the last with the value the second returned
C15_Witness ==
  /\ pc = "await"
  /\ Source = SrcCalls
  /\ Len(calls) = 3
  /\ calls[1] = [tool |-> "search", arg |-> "q", state |-> "returned", value |-> "r1"]
  /\ calls[2] = [tool |-> "search", arg |-> "p", state |-> "returned", value |-> "r2"]
  /\ calls[3] = [tool |-> "search", arg |-> "r2", state |-> "pending", value |-> ""]

\* the paths, as text, of the regular files directly in media/generated/s1
SessionDirectoryFiles ==
  {<<"media/generated/", "s1", "/", p[4]>> :
     p \in {q \in DOMAIN disk : Len(q) = 4 /\ SubSeq(q, 1, 3) = <<"media", "generated", "s1">>}}

\* C16: the created_files of a successful attempt are exactly the regular
\* files that are direct children of the session's output directory when the
\* variant completes, each listed once and nothing from any other directory:
\* files written earlier (by the file phase, by failed attempts, by previous
\* invocations) are among them.
C16_CreatedFilesIsDirectorySnapshot ==
  (pc = "returned" /\ outcome.status = "success") =>
    /\ {outcome.created_files[i] : i \in DOMAIN outcome.created_files} = SessionDirectoryFiles
    /\ Len(outcome.created_files) = Cardinality(SessionDirectoryFiles)

\* the second variant succeeded after the first wrote out.txt and failed; the
\* directory also held old.txt, and other directories hold files as well
C16_Witness ==
  /\ pc = "returned"
  /\ outcome.status = "success"
  /\ Len(attempts) = 2
  /\ output_data.code_variants[attempts[1].name] = SrcWrite
  /\ attempts[1].status = "failed"
  /\ <<"media", "generated", "s0", "other.txt">> \in DOMAIN disk
  /\ <<"media", "generated", "s1", "sub", "deep.txt">> \in DOMAIN disk
  /\ outcome.created_files =
       <<SessionPath("out.txt"), SessionPath("old.txt")>>

\* C17: building the proxies invokes no operation of the collaborator; each
\* call of a proxy by a variant causes exactly one invocation of the
\* operation, with the given argument; nothing is retried: an operation that
\* fails was invoked once, and its error reaches the variant unchanged (the
\* attempt fails with that error's kind and message).
C17_OneInvocationPerProxyCall ==
  [][/\ pc = "seq_loop" => calls' = calls
     /\ Issues <=> (pc = "run" /\ pc' = "await")
     /\ Issues =>
          /\ Len(calls') = Len(calls) + 1
          /\ SubSeq(calls', 1, Len(calls)) = calls
          /\ calls'[Len(calls')].tool = Source.body[ip].value.id
          /\ Source.body[ip].value.e = "call" =>
               calls'[Len(calls')].arg = Source.body[ip].value.arg
     /\ pc = "await" =>
          /\ Len(calls') = Len(calls)
          /\ calls'[Len(calls')].state \in {"returned", "raised"}
          /\ calls'[Len(calls')].state = "raised" =>
               /\ pc' = "returned"
               /\ outcome'.status = "failed"
               /\ outcome'.error.text = <<"RuntimeError", ": ", "tool failed">>]_vars

\* the operation failed: it was invoked once and the attempt failed with its error
C17_Witness ==
  /\ pc = "returned"
  /\ Source = SrcCall
  /\ calls = <<[tool |-> "search", arg |-> "q", state |-> "raised", value |-> ""]>>
  /\ outcome.status = "failed"
  /\ outcome.error.text = <<"RuntimeError", ": ", "tool failed">>

\* C18: every attempt gets a context of its own: nothing a failed attempt did
\* to its context (here, what it stored into the inputs mapping it was
\* given) can be observed by a later attempt.  The caller never passes the
\* key "k", so at the start of an attempt no mapping of the context has it,
\* and a variant that reads inputs["k"] fails.
C18_FailedAttemptLeavesNoTrace ==
  /\ pc = "compile" => \A o \in DOMAIN heap : "k" \notin DOMAIN heap[o]
  /\ (pc = "returned" /\ Source = SrcObserve) => outcome.status = "failed"

\* C19: the top-level error of run_user_code's result is None exactly when
\* its status is success: every result with status partial_failure, failed
\* or no_operation carries an error message.
C19_ErrorIffNotSuccess ==
  /\ results.error.none <=> results.status = "success"
  /\ results.status \in {"success", "partial_failure", "failed", "no_operation"}
  /\ results.status # "success" => results.error.text # <<>>

\* the file phase succeeded, then listing the tools raised: the result is
\* failed and carries the message of the error
C19_Witness ==
  /\ Returned
  /\ results.status = "failed"
  /\ results.operations = <<"direct_files">>
  /\ results.file_results.status = "success"
  /\ results.error = Text(<<"listing failed">>)

\* what each phase reported as created, <<>> for a phase that did not run
FilePhaseList == IF Ran("direct_files") THEN results.file_results.created_files ELSE <<>>
CodePhaseList == IF Ran("python_code") THEN results.code_results.created_files ELSE <<>>
NoPathTwice(list) == \A i, j \in DOMAIN list : i # j => list[i] # list[j]

\* C20: the combined created_files of run_user_code is the file
\* phase's list followed by the code phase's list, and no path is in it
\* more than once.
C20_CombinedListWithoutRepeats ==
  Returned =>
    /\ results.created_files = FilePhaseList \o CodePhaseList
    /\ NoPathTwice(results.created_files)

====
